---- MODULE Spec2Model ----
(***************************************************************************)
(* A model of the rattle template compiler: the tag argument splitter      *)
(* (rattle/utils/parser.py), the expression parser (rattle/parser.py),     *)
(* the structure parser with template inheritance                          *)
(* (rattle/parser/structure.py, ParserState) and the rendering of the      *)
(* generated classes.                                                      *)
(***************************************************************************)
EXTENDS Integers, Sequences, FiniteSets, TLC

(***************************************************************************)
(* Bounds of the model.                                                    *)
(***************************************************************************)
\* longest tag argument string given to split_tag_args_string
MaxLen == 4
\* most operator / filter applications after the first operand of an expression
MaxOps == 2
\* most top-level constructs of the compiled template
MaxDoc == 2
\* most elements of the list a for tag iterates over
MaxItems == 2
\* highest inheritance level the model follows an extends chain to
MaxLevel == 3

(***************************************************************************)
(* Characters.  A Python string is modelled as the sequence of its         *)
(* characters, each a string of length one.                                *)
(***************************************************************************)
DQ == "\""
SQ == "'"
BS == "\\"
LP == "("
RP == ")"
SPACE == " "
TAB == "\t"
NL == "\n"

\* the characters the inputs of the splitter are drawn from
Alphabet == {DQ, SQ, BS, LP, RP, SPACE, TAB, NL, "a"}

\* all sequences over S of length at most n
SeqsUpTo(S, n) == UNION {[1..k -> S] : k \in 0..n}

VARIABLES
  \* ---- split_tag_args_string (utils/parser.py:297-350) ----
  s,          \* the argument string
  pos,        \* number of characters of s the for loop has consumed
  args,       \* the arguments emitted so far
  current,    \* the argument being collected
  escaped,    \* the previous character was an unescaped backslash
  quote,      \* inside a double-quoted substring
  squote,     \* inside a single-quoted substring
  parens,     \* parenthesis depth
  split_ret,  \* what the call has produced: pending, a list, or a ValueError
  \* ---- the expression parser pg (parser.py) ----
  expr_src,   \* the expression being parsed: first operand, applications, parentheses
  tokens,     \* the tokens of the expression not yet shifted
  stack,      \* the LR parser's symbol stack, each symbol with its value
  expr_ret,   \* pending, the parsed AST, or ValueError('Unexpected token')
  \* ---- the structure parser sp (parser/structure.py, ParserState) ----
  files,      \* what the loader reads: file name -> document
  frames,     \* the running parses, the innermost last: file, ParserState,
              \* reductions still to come, value of the doc symbol
  klasses,    \* the ast.ClassDef objects built so far, by class name
  compile_ret,\* pending, the module body, or DuplicateBlockError
  \* ---- one render of the compiled template ----
  context,    \* the caller's context: key -> value
  rstack,     \* the generator's position: function bodies, branches and loops
  out,        \* the fragments yielded so far
  render_ret, \* idle, running, done, or the error of executing the module
  \* ---- a second render call on the same compiled template ----
  parked      \* the call whose generator is not being advanced: its context,
              \* position, fragments and result; idle when there is one call

splitVars == <<s, pos, args, current, escaped, quote, squote, parens, split_ret>>

exprVars == <<expr_src, tokens, stack, expr_ret>>

compileVars == <<files, frames, klasses, compile_ret>>

renderVars == <<context, rstack, out, render_ret>>

vars == <<splitVars, exprVars, compileVars, renderVars, parked>>

\* the components a step of one component leaves alone
notSplit == <<exprVars, compileVars, renderVars, parked>>
notExpr == <<splitVars, compileVars, renderVars, parked>>
\* what a step of the structure parse or of the advancing generator leaves alone
notTemplate == <<splitVars, exprVars, parked>>

\* a component that is not running
Idle == [kind |-> "idle"]
IdleSplit ==
  /\ s = <<>> /\ pos = 0 /\ args = <<>> /\ current = <<>>
  /\ escaped = FALSE /\ quote = FALSE /\ squote = FALSE /\ parens = 0
  /\ split_ret = Idle
IdleExpr ==
  /\ expr_src = Idle /\ tokens = <<>> /\ stack = <<>> /\ expr_ret = Idle
IdleTemplate ==
  /\ files = <<>> /\ frames = <<>> /\ klasses = <<>> /\ compile_ret = Idle
  /\ context = <<>> /\ rstack = <<>> /\ out = <<>> /\ render_ret = Idle
  /\ parked = Idle

(***************************************************************************)
(* split_tag_args_string                                                   *)
(***************************************************************************)
\* the five ValueError messages of split_tag_args_string
ErrClosingUnopened == "Closing un-open parenthesis"
ErrUnclosedDQuote == "Un-closed double quote"
ErrUnclosedSQuote == "Un-closed single quote"
ErrUnclosedParen == "Un-closed parenthesis"
ErrUnusedEscape == "Un-used escaping"

Pending == [kind |-> "pending", args |-> <<>>, msg |-> "", open |-> 0]
Returned(a) == [kind |-> "list", args |-> a, msg |-> "", open |-> 0]
\* raise ValueError(msg): nothing is returned; open is the %d of the message
Raised(m, n) == [kind |-> "error", args |-> <<>>, msg |-> m, open |-> n]

\* lines 329-330 / 337-338: current[0] == current[-1] and current[0] in ('"', "'")
StripQuotes(cur) ==
  IF cur[1] = cur[Len(cur)] /\ cur[1] \in {DQ, SQ}
  THEN SubSeq(cur, 2, Len(cur) - 1)
  ELSE cur

\* lines 328-332 / 336-339: if current: ... args.append(''.join(current))
EmitArg(a, cur) ==
  IF cur # <<>> THEN Append(a, StripQuotes(cur)) ELSE a

\* a splitter that drops the escape character
AppendEscaped_dropsBackslash(cur, c) == cur \o <<c>>

\* lines 305-306: current.append('\\'); current.append(c)
AppendEscaped(cur, c) == cur \o <<BS, c>>

\* line 326: the character that separates arguments
IsSeparator(c) == c = SPACE

\* a splitter whose final checks forget the pending escape
EndResult_ignoresEscape(a, cur, esc, q, sq, p) ==
  IF ~q /\ ~sq /\ p = 0
  THEN Returned(EmitArg(a, cur))
  ELSE IF q THEN Raised(ErrUnclosedDQuote, 0)
  ELSE IF sq THEN Raised(ErrUnclosedSQuote, 0)
  ELSE Raised(ErrUnclosedParen, p)

\* lines 335-350: the code after the loop
EndResult(a, cur, esc, q, sq, p) ==
  IF ~esc /\ ~q /\ ~sq /\ p = 0
  THEN Returned(EmitArg(a, cur))
  ELSE IF q THEN Raised(ErrUnclosedDQuote, 0)
  ELSE IF sq THEN Raised(ErrUnclosedSQuote, 0)
  ELSE IF p > 0 THEN Raised(ErrUnclosedParen, p)
  ELSE IF esc THEN Raised(ErrUnusedEscape, 0)
  ELSE Returned(a)

\* a splitter that never refuses a closing parenthesis
ClosesUnopened_never(q, sq, p) == FALSE

\* lines 319-320: a ")" outside quotes with no parenthesis open
ClosesUnopened(q, sq, p) == ~q /\ ~sq /\ p <= 0

Scanning == split_ret.kind = "pending" /\ pos < Len(s)
c == s[pos + 1]

\* lines 303-307
SplitEscaped ==
  /\ Scanning /\ escaped
  /\ escaped' = FALSE
  /\ current' = AppendEscaped(current, c)
  /\ pos' = pos + 1
  /\ UNCHANGED <<s, args, quote, squote, parens, split_ret>>
  /\ UNCHANGED notSplit

\* lines 309-311, 334
SplitDQuote ==
  /\ Scanning /\ ~escaped /\ c = DQ
  /\ quote' = IF ~squote THEN ~quote ELSE quote
  /\ current' = Append(current, c)
  /\ pos' = pos + 1
  /\ UNCHANGED <<s, args, escaped, squote, parens, split_ret>>
  /\ UNCHANGED notSplit

\* lines 312-314, 334
SplitSQuote ==
  /\ Scanning /\ ~escaped /\ c = SQ
  /\ squote' = IF ~quote THEN ~squote ELSE squote
  /\ current' = Append(current, c)
  /\ pos' = pos + 1
  /\ UNCHANGED <<s, args, escaped, quote, parens, split_ret>>
  /\ UNCHANGED notSplit

\* lines 315-317, 334
SplitOpenParen ==
  /\ Scanning /\ ~escaped /\ c = LP
  /\ parens' = IF ~quote /\ ~squote THEN parens + 1 ELSE parens
  /\ current' = Append(current, c)
  /\ pos' = pos + 1
  /\ UNCHANGED <<s, args, escaped, quote, squote, split_ret>>
  /\ UNCHANGED notSplit

\* lines 318-322, 334
SplitCloseParen ==
  /\ Scanning /\ ~escaped /\ c = RP
  /\ IF ClosesUnopened(quote, squote, parens)
     THEN /\ split_ret' = Raised(ErrClosingUnopened, 0)
          /\ UNCHANGED <<s, pos, args, current, escaped, quote, squote, parens>>
     ELSE /\ parens' = IF ~quote /\ ~squote THEN parens - 1 ELSE parens
          /\ current' = Append(current, c)
          /\ pos' = pos + 1
          /\ UNCHANGED <<s, args, escaped, quote, squote, split_ret>>
  /\ UNCHANGED notSplit

\* lines 323-325
SplitBackslash ==
  /\ Scanning /\ ~escaped /\ c = BS
  /\ escaped' = TRUE
  /\ pos' = pos + 1
  /\ UNCHANGED <<s, args, current, quote, squote, parens, split_ret>>
  /\ UNCHANGED notSplit

\* lines 326-334
SplitSeparator ==
  /\ Scanning /\ ~escaped /\ c \notin {DQ, SQ, LP, RP, BS} /\ IsSeparator(c)
  /\ IF ~quote /\ ~squote /\ parens = 0
     THEN /\ args' = EmitArg(args, current)
          /\ current' = <<>>
     ELSE /\ current' = Append(current, c)
          /\ args' = args
  /\ pos' = pos + 1
  /\ UNCHANGED <<s, escaped, quote, squote, parens, split_ret>>
  /\ UNCHANGED notSplit

\* line 334: any other character
SplitOther ==
  /\ Scanning /\ ~escaped /\ c \notin {DQ, SQ, LP, RP, BS} /\ ~IsSeparator(c)
  /\ current' = Append(current, c)
  /\ pos' = pos + 1
  /\ UNCHANGED <<s, args, escaped, quote, squote, parens, split_ret>>
  /\ UNCHANGED notSplit

\* lines 335-350: the loop is over
SplitEnd ==
  /\ split_ret.kind = "pending" /\ pos = Len(s)
  /\ split_ret' = EndResult(args, current, escaped, quote, squote, parens)
  /\ UNCHANGED <<s, pos, args, current, escaped, quote, squote, parens>>
  /\ UNCHANGED notSplit

\* lines 298-301, for every argument string within the bound
InitSplit ==
  /\ s \in SeqsUpTo(Alphabet, MaxLen)
  /\ pos = 0
  /\ args = <<>>
  /\ current = <<>>
  /\ escaped = FALSE /\ quote = FALSE /\ squote = FALSE
  /\ parens = 0
  /\ split_ret = Pending
  /\ IdleExpr /\ IdleTemplate

NextSplit ==
  \/ SplitEscaped
  \/ SplitDQuote
  \/ SplitSQuote
  \/ SplitOpenParen
  \/ SplitCloseParen
  \/ SplitBackslash
  \/ SplitSeparator
  \/ SplitOther
  \/ SplitEnd

SpecSplit == InitSplit /\ [][NextSplit]_vars

(***************************************************************************)
(* The expression parser (parser.py): tokens and AST nodes                 *)
(***************************************************************************)
Tok(t, str) == [type |-> t, str |-> str]

\* the precedence table, lowest level first (parser.py:12-26)
PrecedenceTable ==
  << <<"left", {"COMMA"}>>,
     <<"right", {"ASSIGN"}>>,
     <<"left", {"PIPE"}>>,
     <<"left", {"AND", "OR"}>>,
     <<"left", {"EQUAL", "NEQUAL", "LT", "LTE", "GT", "GTE",
                "IN", "NOTIN", "ISNOT", "IS"}>>,
     <<"left", {"PLUS", "MINUS"}>>,
     <<"left", {"MUL", "DIV", "MOD"}>>,
     <<"left", {"LSQB", "RSQB"}>>,
     <<"left", {"DOT"}>>,
     <<"left", {"LPAREN", "RPAREN"}>> >>

\* the level of a token in the table; a token the table does not name has level 0
Level(t) ==
  IF \E k \in DOMAIN PrecedenceTable : t \in PrecedenceTable[k][2]
  THEN CHOOSE k \in DOMAIN PrecedenceTable : t \in PrecedenceTable[k][2]
  ELSE 0

\* ... and associativity "right"
Assoc(t) ==
  IF Level(t) = 0 THEN "right" ELSE PrecedenceTable[Level(t)][1]

\* How the generated LR table settles a shift/reduce conflict between a
\* production whose last terminal is t and the lookahead la: reduce when la's
\* level is lower, or equal with t left-associative; shift otherwise.
PreferReduce(t, la) ==
  \/ Level(la) < Level(t)
  \/ Level(la) = Level(t) /\ Assoc(t) = "left"

\* parser.py:126-132
BinopMapping ==
  ("PLUS" :> "Add") @@ ("MINUS" :> "Sub") @@ ("MUL" :> "Mult") @@ ("DIV" :> "Div")
    @@ ("MOD" :> "Mod")
\* parser.py:146-157
CmpopMapping ==
  ("EQUAL" :> "Eq") @@ ("NEQUAL" :> "NotEq") @@ ("LT" :> "Lt") @@ ("LTE" :> "LtE")
    @@ ("GT" :> "Gt") @@ ("GTE" :> "GtE") @@ ("IN" :> "In") @@ ("NOTIN" :> "NotIn")
    @@ ("ISNOT" :> "IsNot") @@ ("IS" :> "Is")

BinTokens == DOMAIN BinopMapping
CmpTokens == DOMAIN CmpopMapping

\* ---- AST nodes ----
Num(n) == [k |-> "Num", n |-> n]
Str(x) == [k |-> "Str", s |-> x]
Name(id) == [k |-> "Name", id |-> id]
Subscript(value, index) == [k |-> "Subscript", value |-> value, index |-> index]
Attribute(value, attr) == [k |-> "Attribute", value |-> value, attr |-> attr]
List(elts) == [k |-> "List", elts |-> elts]
BinOp(left, op, right) == [k |-> "BinOp", op |-> op, left |-> left, right |-> right]
Compare(left, op, right) == [k |-> "Compare", op |-> op, left |-> left, right |-> right]
Keyword(arg, value) == [arg |-> arg, value |-> value]

\* utils/parser.py:101-122
build_call(func, a, kw) == [k |-> "Call", func |-> func, args |-> a, keywords |-> kw]

\* utils/parser.py:270-294: '.'.join(names)
get_lookup_name(names) ==
  build_call(Attribute(Str("."), "join"), <<List(names)>>, <<>>)

\* utils/parser.py:251-267: filters[name]
get_filter_func(name) == Subscript(Name("filters"), name)

\* parser.py:304-313: context[NAME]
ContextLookup(id) == Subscript(Name("context"), Str(id))

\* parser.py:316-323: int(number) of a decimal digit string
IntOf(str) == CHOOSE n \in 0..9 : ToString(n) = str

\* a filter calling the first positional argument last
FilterCall_argLast(arg, filter) ==
  build_call(filter[1], filter[2] \o <<arg>>, filter[3])

\* parser.py:176-179: arg, (filter, args, kwargs) = p
FilterCall(arg, filter) ==
  build_call(filter[1], <<arg>> \o filter[2], filter[3])

(***************************************************************************)
(* The LR parser over the productions of parser.py.  The stack holds       *)
(* grammar symbols with their values; Decide is the parse table: what the  *)
(* parser does for the symbols on top of the stack and the lookahead.      *)
(***************************************************************************)
Symbol(sym, val) == [sym |-> sym, val |-> val]

\* the k-th symbol from the top of st ("" below the bottom)
Sym(st, k) == IF k <= Len(st) THEN st[Len(st) + 1 - k].sym ELSE ""
Val(st, k) == st[Len(st) + 1 - k].val

\* the lookahead: the type of the next token, or $end
Lookahead(toks) == IF toks = <<>> THEN "$end" ELSE toks[1].type

\* tokens with which a production continues a complete expr
ExprContinue == BinTokens \cup CmpTokens \cup {"PIPE", "LPAREN"}
\* tokens that start an operand
OperandStart == {"NUMBER", "NAME", "LPAREN"}

\* the parenthesis on top of st at depth k opens the arguments of a filter call
IsFilterParen(st, k) == Sym(st, k) = "LPAREN" /\ Sym(st, k + 1) = "lookup_name"
\* ... the arguments of a call of the expr before it
IsExprParen(st, k) == Sym(st, k) = "LPAREN" /\ Sym(st, k + 1) = "expr"
\* ... the arguments of either call
IsCallParen(st, k) == Sym(st, k) = "LPAREN" /\ Sym(st, k + 1) \in {"lookup_name", "expr"}

DecideExpr(st, la) ==
  LET below == Sym(st, 2) IN
  IF below \in BinTokens \cup CmpTokens
  THEN IF la \in ExprContinue
       THEN IF PreferReduce(below, la)
            THEN (IF below \in BinTokens THEN "expr_binop" ELSE "expr_cmpop")
            ELSE "shift"
       ELSE IF la \in {"$end", "RPAREN", "COMMA"}
       THEN (IF below \in BinTokens THEN "expr_binop" ELSE "expr_cmpop")
       ELSE "error"
  ELSE IF below = "ASSIGN"
  THEN IF la \in ExprContinue
       THEN (IF PreferReduce("ASSIGN", la) THEN "kwarg_assignment" ELSE "shift")
       ELSE IF la \in {"RPAREN", "COMMA"} THEN "kwarg_assignment"
       ELSE "error"
  ELSE IF IsCallParen(st, 2) \/ below = "COMMA"
  THEN IF la \in ExprContinue THEN "shift"
       ELSE IF la \in {"RPAREN", "COMMA"} THEN "arg_expr"
       ELSE "error"
  ELSE IF below = "LPAREN"
  THEN IF la \in ExprContinue \cup {"RPAREN"} THEN "shift" ELSE "error"
  ELSE IF below = ""
  THEN IF la = "$end" THEN "accept"
       ELSE IF la \in ExprContinue THEN "shift"
       ELSE "error"
  ELSE "error"

DecideName(st, la) ==
  IF Sym(st, 2) = "PIPE" THEN "lookup_name_NAME"
  ELSE IF Sym(st, 2) = "DOT" /\ Sym(st, 3) = "lookup_name" THEN "lookup_name_append"
  ELSE IF Sym(st, 2) = "COMMA" /\ Sym(st, 3) = "kwarg_list"
  THEN (IF la = "ASSIGN" THEN "shift" ELSE "error")
  ELSE IF la = "ASSIGN"
  THEN (IF IsCallParen(st, 2) \/ Sym(st, 2) = "COMMA" THEN "shift" ELSE "error")
  ELSE "name_NAME"

DecideRParen(st) ==
  IF IsFilterParen(st, 2) THEN "filter_pipe_lookup_empty_call"
  ELSE IF IsExprParen(st, 2) THEN "expr_empty_call"
  ELSE IF Sym(st, 2) = "expr" /\ Sym(st, 3) = "LPAREN" THEN "expr_binop_paren"
  ELSE IF Sym(st, 2) = "arg_list" /\ IsFilterParen(st, 3)
  THEN "filter_pipe_lookup_args_call"
  ELSE IF Sym(st, 2) = "arg_list" /\ IsExprParen(st, 3)
  THEN "expr_args_call"
  ELSE IF Sym(st, 2) = "kwarg_list" /\ IsFilterParen(st, 3)
  THEN "filter_pipe_lookup_kwargs_call"
  ELSE IF Sym(st, 2) = "kwarg_list" /\ IsExprParen(st, 3)
  THEN "expr_kwargs_call"
  ELSE IF /\ Sym(st, 2) = "kwarg_list" /\ Sym(st, 3) = "COMMA"
          /\ Sym(st, 4) = "arg_list" /\ IsFilterParen(st, 5)
  THEN "filter_pipe_lookup_full_call"
  ELSE IF /\ Sym(st, 2) = "kwarg_list" /\ Sym(st, 3) = "COMMA"
          /\ Sym(st, 4) = "arg_list" /\ IsExprParen(st, 5)
  THEN "expr_full_call"
  ELSE "error"

Decide(st, la) ==
  LET top == Sym(st, 1) IN
  IF top = "" THEN (IF la \in OperandStart THEN "shift" ELSE "error")
  ELSE IF top = "NUMBER" THEN "number_NUMBER"
  ELSE IF top = "NAME" THEN DecideName(st, la)
  ELSE IF top \in {"name", "number"} THEN "literal"
  ELSE IF top = "literal"
  THEN (IF Sym(st, 2) = "COLON" THEN "filter_colon_arg" ELSE "expr_literal")
  ELSE IF top = "lookup_name"
  THEN (IF la \in {"DOT", "COLON", "LPAREN"} THEN "shift"
        ELSE "filter_pipe_lookup_name")
  ELSE IF top = "filter" THEN "expr_filter"
  ELSE IF top = "expr" THEN DecideExpr(st, la)
  ELSE IF top = "RPAREN" THEN DecideRParen(st)
  ELSE IF top = "arg"
  THEN (IF Sym(st, 2) = "COMMA" THEN "arg_list_append" ELSE "arg_list_arg")
  ELSE IF top = "kwarg"
  THEN (IF Sym(st, 2) = "COMMA" /\ Sym(st, 3) = "kwarg_list"
        THEN "kwarg_list_append" ELSE "kwarg_list_kwarg")
  ELSE IF top \in {"arg_list", "kwarg_list"}
  THEN (IF la \in {"COMMA", "RPAREN"} THEN "shift" ELSE "error")
  ELSE IF top = "PIPE" THEN (IF la = "NAME" THEN "shift" ELSE "error")
  ELSE IF top = "DOT" THEN (IF la = "NAME" THEN "shift" ELSE "error")
  ELSE IF top = "COLON"
  THEN (IF la \in {"NUMBER", "NAME"} THEN "shift" ELSE "error")
  ELSE IF top = "COMMA" /\ Sym(st, 2) = "kwarg_list"
  THEN (IF la = "NAME" THEN "shift" ELSE "error")
  ELSE IF top = "LPAREN" /\ IsCallParen(st, 1)
  THEN (IF la \in OperandStart \cup {"RPAREN"} THEN "shift" ELSE "error")
  ELSE IF top \in BinTokens \cup CmpTokens \cup {"LPAREN", "COMMA", "ASSIGN"}
  THEN (IF la \in OperandStart THEN "shift" ELSE "error")
  ELSE "error"

Parsing == expr_ret.kind = "pending"
Does(what) == Parsing /\ Decide(stack, Lookahead(tokens)) = what

\* the stack with its n top symbols replaced by one
Reduce(n, sym, val) ==
  /\ stack' = Append(SubSeq(stack, 1, Len(stack) - n), Symbol(sym, val))
  /\ UNCHANGED <<expr_src, tokens, expr_ret>>
  /\ UNCHANGED notExpr

\* the parser takes the next token
Shift ==
  /\ Does("shift")
  /\ stack' = Append(stack, Symbol(tokens[1].type, tokens[1].str))
  /\ tokens' = Tail(tokens)
  /\ UNCHANGED <<expr_src, expr_ret>>
  /\ UNCHANGED notExpr

\* parser.py:316-323
number_NUMBER ==
  /\ Does("number_NUMBER")
  /\ Reduce(1, "number", Num(IntOf(Val(stack, 1))))

\* parser.py:304-313
name_NAME ==
  /\ Does("name_NAME")
  /\ Reduce(1, "name", ContextLookup(Val(stack, 1)))

\* parser.py:285-289
literal ==
  /\ Does("literal")
  /\ Reduce(1, "literal", Val(stack, 1))

\* parser.py:111-113
expr_literal ==
  /\ Does("expr_literal")
  /\ Reduce(1, "expr", Val(stack, 1))

\* parser.py:135-143
expr_binop ==
  /\ Does("expr_binop")
  /\ Reduce(3, "expr", BinOp(Val(stack, 3), BinopMapping[Sym(stack, 2)], Val(stack, 1)))

\* parser.py:160-173
expr_cmpop ==
  /\ Does("expr_cmpop")
  /\ Reduce(3, "expr", Compare(Val(stack, 3), CmpopMapping[Sym(stack, 2)], Val(stack, 1)))

\* parser.py:176-179
expr_filter ==
  /\ Does("expr_filter")
  /\ Reduce(2, "expr", FilterCall(Val(stack, 2), Val(stack, 1)))

\* parser.py:182-184
expr_binop_paren ==
  /\ Does("expr_binop_paren")
  /\ Reduce(3, "expr", Val(stack, 2))

\* parser.py:197-200
expr_empty_call ==
  /\ Does("expr_empty_call")
  /\ Reduce(3, "expr", build_call(Val(stack, 3), <<>>, <<>>))

\* parser.py:203-206
expr_args_call ==
  /\ Does("expr_args_call")
  /\ Reduce(4, "expr", build_call(Val(stack, 4), Val(stack, 2), <<>>))

\* parser.py:209-212
expr_kwargs_call ==
  /\ Does("expr_kwargs_call")
  /\ Reduce(4, "expr", build_call(Val(stack, 4), <<>>, Val(stack, 2)))

\* parser.py:215-218
expr_full_call ==
  /\ Does("expr_full_call")
  /\ Reduce(6, "expr", build_call(Val(stack, 6), Val(stack, 4), Val(stack, 2)))

\* parser.py:292-294
lookup_name_NAME ==
  /\ Does("lookup_name_NAME")
  /\ Reduce(1, "lookup_name", <<Str(Val(stack, 1))>>)

\* parser.py:297-301
lookup_name_append ==
  /\ Does("lookup_name_append")
  /\ Reduce(3, "lookup_name", Append(Val(stack, 3), Str(Val(stack, 1))))

\* parser.py:229-233
filter_pipe_lookup_name ==
  /\ Does("filter_pipe_lookup_name")
  /\ Reduce(2, "filter",
            <<get_filter_func(get_lookup_name(Val(stack, 1))), <<>>, <<>> >>)

\* parser.py:221-226
filter_colon_arg ==
  /\ Does("filter_colon_arg")
  /\ Reduce(4, "filter",
            <<get_filter_func(get_lookup_name(Val(stack, 3))), <<Val(stack, 1)>>, <<>> >>)

\* parser.py:236-240
filter_pipe_lookup_empty_call ==
  /\ Does("filter_pipe_lookup_empty_call")
  /\ Reduce(4, "filter",
            <<get_filter_func(get_lookup_name(Val(stack, 3))), <<>>, <<>> >>)

\* parser.py:243-248
filter_pipe_lookup_args_call ==
  /\ Does("filter_pipe_lookup_args_call")
  /\ Reduce(5, "filter",
            <<get_filter_func(get_lookup_name(Val(stack, 4))), Val(stack, 2), <<>> >>)

\* parser.py:251-256
filter_pipe_lookup_kwargs_call ==
  /\ Does("filter_pipe_lookup_kwargs_call")
  /\ Reduce(5, "filter",
            <<get_filter_func(get_lookup_name(Val(stack, 4))), <<>>, Val(stack, 2)>>)

\* parser.py:259-264
filter_pipe_lookup_full_call ==
  /\ Does("filter_pipe_lookup_full_call")
  /\ Reduce(7, "filter",
            <<get_filter_func(get_lookup_name(Val(stack, 6))), Val(stack, 4), Val(stack, 2)>>)

\* parser.py:94-96
arg_expr ==
  /\ Does("arg_expr")
  /\ Reduce(1, "arg", Val(stack, 1))

\* parser.py:99-101
arg_list_arg ==
  /\ Does("arg_list_arg")
  /\ Reduce(1, "arg_list", <<Val(stack, 1)>>)

\* parser.py:104-108
arg_list_append ==
  /\ Does("arg_list_append")
  /\ Reduce(3, "arg_list", Append(Val(stack, 3), Val(stack, 1)))

\* parser.py:267-270
kwarg_assignment ==
  /\ Does("kwarg_assignment")
  /\ Reduce(3, "kwarg", Keyword(Val(stack, 3), Val(stack, 1)))

\* parser.py:273-275
kwarg_list_kwarg ==
  /\ Does("kwarg_list_kwarg")
  /\ Reduce(1, "kwarg_list", <<Val(stack, 1)>>)

\* parser.py:278-282
kwarg_list_append ==
  /\ Does("kwarg_list_append")
  /\ Reduce(3, "kwarg_list", Append(Val(stack, 3), Val(stack, 1)))

\* the whole input is one expr: the parser returns its value
Accept ==
  /\ Does("accept")
  /\ expr_ret' = [kind |-> "ast", tree |-> Val(stack, 1)]
  /\ UNCHANGED <<expr_src, tokens, stack>>
  /\ UNCHANGED notExpr

\* parser.py:331-333: no production takes the lookahead
ParseError ==
  /\ Does("error")
  /\ expr_ret' = [kind |-> "error", token |-> Lookahead(tokens)]
  /\ UNCHANGED <<expr_src, tokens, stack>>
  /\ UNCHANGED notExpr

(***************************************************************************)
(* The expressions parsed: a first operand followed by at most MaxOps      *)
(* applications (a binary operator with its right operand, or a filter),   *)
(* with at most one parenthesised group.  The first operand is 1, the      *)
(* right operand of the i-th application is the number i + 1.              *)
(***************************************************************************)
BinaryPieces == {"PLUS", "MINUS", "MUL", "LT", "AND"}
FilterPieces == {"plain", "colon", "empty", "args", "kwargs", "full"}
Pieces == BinaryPieces \cup FilterPieces
\* calls of the expression to their left: name(), name(8, 9), ...
CallPieces == {"call", "call_args", "call_kwargs", "call_full"}

OperatorText ==
  [PLUS |-> "+", MINUS |-> "-", MUL |-> "*", LT |-> "<", AND |-> "and"]

\* the tokens of the operand of position i (0: the first operand)
OperandTokens(first, i) ==
  IF i = 0 THEN <<first>> ELSE <<Tok("NUMBER", ToString(i + 1))>>

\* the tokens of a filter piece
FilterTokens(p) ==
  CASE p = "plain" -> <<Tok("PIPE", "|"), Tok("NAME", "f")>>
    [] p = "colon" -> <<Tok("PIPE", "|"), Tok("NAME", "a"), Tok("DOT", "."),
                        Tok("NAME", "b"), Tok("COLON", ":"), Tok("NAME", "y")>>
    [] p = "empty" -> <<Tok("PIPE", "|"), Tok("NAME", "f"),
                        Tok("LPAREN", "("), Tok("RPAREN", ")")>>
    [] p = "args" -> <<Tok("PIPE", "|"), Tok("NAME", "f"), Tok("LPAREN", "("),
                       Tok("NUMBER", "8"), Tok("COMMA", ","), Tok("NUMBER", "9"),
                       Tok("RPAREN", ")")>>
    [] p = "kwargs" -> <<Tok("PIPE", "|"), Tok("NAME", "f"), Tok("LPAREN", "("),
                         Tok("NAME", "k"), Tok("ASSIGN", "="), Tok("NUMBER", "8"),
                         Tok("COMMA", ","), Tok("NAME", "m"), Tok("ASSIGN", "="),
                         Tok("NUMBER", "9"), Tok("RPAREN", ")")>>
    [] p = "full" -> <<Tok("PIPE", "|"), Tok("NAME", "g"), Tok("LPAREN", "("),
                       Tok("NUMBER", "8"), Tok("COMMA", ","), Tok("NAME", "k"),
                       Tok("ASSIGN", "="), Tok("NUMBER", "9"), Tok("RPAREN", ")")>>

\* the tokens of a call piece
CallTokens(p) ==
  CASE p = "call" -> <<Tok("LPAREN", "("), Tok("RPAREN", ")")>>
    [] p = "call_args" -> <<Tok("LPAREN", "("), Tok("NUMBER", "8"), Tok("COMMA", ","),
                            Tok("NUMBER", "9"), Tok("RPAREN", ")")>>
    [] p = "call_kwargs" -> <<Tok("LPAREN", "("), Tok("NAME", "k"), Tok("ASSIGN", "="),
                              Tok("NUMBER", "8"), Tok("COMMA", ","), Tok("NAME", "m"),
                              Tok("ASSIGN", "="), Tok("NUMBER", "9"), Tok("RPAREN", ")")>>
    [] p = "call_full" -> <<Tok("LPAREN", "("), Tok("NUMBER", "8"), Tok("COMMA", ","),
                            Tok("NAME", "k"), Tok("ASSIGN", "="), Tok("NAME", "y"),
                            Tok("RPAREN", ")")>>

\* src.paren = <<>>, or <<k, j>>: a parenthesis opens before operand k and
\* closes after application j
OpensAt(src, i) == src.paren # <<>> /\ src.paren[1] = i
ClosesAt(src, i) == src.paren # <<>> /\ src.paren[2] = i

\* the tokens of applications i.. of src
RECURSIVE TokensFrom(_, _)
TokensFrom(src, i) ==
  IF i > Len(src.pieces) THEN <<>>
  ELSE LET p == src.pieces[i] IN
       (IF p \in BinaryPieces
        THEN <<Tok(p, OperatorText[p])>>
               \o (IF OpensAt(src, i) THEN <<Tok("LPAREN", "(")>> ELSE <<>>)
               \o OperandTokens(src.first, i)
        ELSE IF p \in CallPieces THEN CallTokens(p)
        ELSE FilterTokens(p))
       \o (IF ClosesAt(src, i) THEN <<Tok("RPAREN", ")")>> ELSE <<>>)
       \o TokensFrom(src, i + 1)

\* the token stream the expression lexer hands to the parser
Lex(src) ==
  (IF OpensAt(src, 0) THEN <<Tok("LPAREN", "(")>> ELSE <<>>)
  \o OperandTokens(src.first, 0)
  \o (IF ClosesAt(src, 0) THEN <<Tok("RPAREN", ")")>> ELSE <<>>)
  \o TokensFrom(src, 1)

\* where a parenthesised group may sit in a sequence of pieces
Sources ==
  {[first |-> f, pieces |-> ps, paren |-> pr] :
     f \in {Tok("NUMBER", "1")},
     ps \in SeqsUpTo(Pieces, MaxOps),
     pr \in {<<>>} \cup ((0..MaxOps) \X (0..MaxOps))}

WellFormed(src) ==
  \/ src.paren = <<>>
  \/ /\ src.paren[1] <= src.paren[2]
     /\ src.paren[2] <= Len(src.pieces)
     /\ src.paren[1] = 0 \/ src.pieces[src.paren[1]] \in BinaryPieces

InitExpr ==
  /\ expr_src \in {src \in Sources : WellFormed(src)}
  /\ tokens = Lex(expr_src)
  /\ stack = <<>>
  /\ expr_ret = [kind |-> "pending"]
  /\ IdleSplit /\ IdleTemplate

NextExpr ==
  \/ Shift
  \/ number_NUMBER
  \/ name_NAME
  \/ literal
  \/ expr_literal
  \/ expr_binop
  \/ expr_cmpop
  \/ expr_filter
  \/ expr_binop_paren
  \/ lookup_name_NAME
  \/ lookup_name_append
  \/ filter_pipe_lookup_name
  \/ filter_colon_arg
  \/ filter_pipe_lookup_empty_call
  \/ filter_pipe_lookup_args_call
  \/ filter_pipe_lookup_kwargs_call
  \/ filter_pipe_lookup_full_call
  \/ arg_expr
  \/ arg_list_arg
  \/ arg_list_append
  \/ kwarg_assignment
  \/ kwarg_list_kwarg
  \/ kwarg_list_append
  \/ Accept
  \/ ParseError

SpecExpr == InitExpr /\ [][NextExpr]_vars

\* ---- expressions that call a name ----
\* the name h followed by at most MaxOps calls, filters or additions, and the
\* one-operator expressions of Sources
CallSources ==
  {[first |-> Tok("NAME", "h"), pieces |-> ps, paren |-> <<>>] :
     ps \in SeqsUpTo(CallPieces \cup {"PLUS", "plain", "args"}, MaxOps)}
  \cup {src \in Sources : WellFormed(src) /\ Len(src.pieces) <= 1}

InitCalls ==
  /\ expr_src \in CallSources
  /\ tokens = Lex(expr_src)
  /\ stack = <<>>
  /\ expr_ret = [kind |-> "pending"]
  /\ IdleSplit /\ IdleTemplate

NextCalls ==
  \/ NextExpr
  \/ expr_empty_call
  \/ expr_args_call
  \/ expr_kwargs_call
  \/ expr_full_call

SpecCalls == InitCalls /\ [][NextCalls]_vars

(***************************************************************************)
(* The structure parser (parser/structure.py) with ParserState             *)
(* (utils/parser.py).  A document is the sequence of its top-level         *)
(* constructs; the bodies of if, for and block tags are sequences of       *)
(* constructs again (the grammar's inner).                                 *)
(***************************************************************************)
Text(t) == [tag |-> "CONTENT", text |-> t]
Var(id) == [tag |-> "var", name |-> id]
Comment == [tag |-> "comment"]
IfTag(cond, body) == [tag |-> "if", cond |-> cond, body |-> body, orelse |-> <<>>]
ForTag(target, iter, body) ==
  [tag |-> "for", target |-> target, iter |-> iter, body |-> body, orelse |-> <<>>]
ForElseTag(target, iter, body, orelse) ==
  [tag |-> "for", target |-> target, iter |-> iter, body |-> body, orelse |-> orelse]
BlockTag(name, body) == [tag |-> "block", name |-> name, body |-> body]
ExtendsTag(file) == [tag |-> "extends", file |-> file]

\* ---- the statements of the generated functions ----
\* utils/parser.py:209-224: yield value
build_yield(value) == [st |-> "yield", value |-> value]

\* utils/parser.py:227-248: yield from self.<name>(context)
build_yield_from(name) == [st |-> "yield_from", name |-> name]

Pass == [st |-> "pass"]

\* utils/parser.py:155-187: the body starts with yield ''
build_function(name, body) ==
  [st |-> "def", name |-> name, body |-> <<build_yield(Str(""))>> \o body]

\* structure.py:106-114: yield auto_escape(<expression>); the expression of
\* a bare name is context[name] (parser.py name_NAME)
var__varstart_CONTENT_varend(id) ==
  build_yield(build_call(Name("auto_escape"), <<ContextLookup(id)>>, <<>>))

\* structure.py:215-217
comment == build_yield(Str(""))

\* structure.py:126-145: ast.If(test, body, orelse)
if__impl(cond, body, orelse) ==
  [st |-> "if", test |-> ContextLookup(cond), body |-> body, orelse |-> orelse]

\* structure.py:148-185: ast.For with target context[<target>] in Store
\* context; for__impl has orelse = []
for__impl(target, iter, body, orelse) ==
  [st |-> "for", target |-> Subscript(Name("context"), Str(target)),
   iter |-> ContextLookup(iter), body |-> body, orelse |-> orelse]

RECURSIVE Lower(_), inner(_)
\* the value a construct reduces to: the statement that replaces it in the
\* surrounding body (structure.py:106-217)
Lower(node) ==
  CASE node.tag = "CONTENT" -> build_yield(Str(node.text))
    [] node.tag = "var" -> var__varstart_CONTENT_varend(node.name)
    [] node.tag = "comment" -> comment
    [] node.tag = "if" -> if__impl(node.cond, inner(node.body), inner(node.orelse))
    [] node.tag = "for" ->
         for__impl(node.target, node.iter, inner(node.body), inner(node.orelse))
    [] node.tag = "block" -> build_yield_from(node.name)
    [] node.tag = "extends" -> Pass

\* structure.py:220-255: the list an inner body reduces to; a comment is
\* kept when it is the first construct (inner : comment) and dropped
\* otherwise (inner : inner comment)
inner(body) ==
  IF body = <<>> THEN <<>>
  ELSE LET n == Len(body)
           front == inner(SubSeq(body, 1, n - 1))
       IN IF n > 1 /\ body[n].tag = "comment" THEN front
          ELSE Append(front, Lower(body[n]))

\* ---- the reductions with an effect on the ParserState, in the order the
\* LR parser performs them: the constructs of a body before the tag that
\* holds them, left to right ----
BlockEvent(name, body) == [ev |-> "block", name |-> name, body |-> body]
ExtendsEvent(file) == [ev |-> "extends", file |-> file]
DocEvent(prod, stmt) == [ev |-> prod, stmt |-> stmt]

RECURSIVE Effects(_), EffectsOfBody(_)
Effects(node) ==
  CASE node.tag \in {"if", "for"} ->
         EffectsOfBody(node.body) \o EffectsOfBody(node.orelse)
    [] node.tag = "block" ->
         Append(EffectsOfBody(node.body), BlockEvent(node.name, inner(node.body)))
    [] node.tag = "extends" -> <<ExtendsEvent(node.file)>>
    [] OTHER -> <<>>

EffectsOfBody(body) ==
  IF body = <<>> THEN <<>>
  ELSE EffectsOfBody(SubSeq(body, 1, Len(body) - 1)) \o Effects(body[Len(body)])

\* structure.py:62-103: the doc production that reduces the k-th top-level
\* construct
DocProduction(k, node) ==
  IF k = 1
  THEN IF node.tag = "CONTENT" THEN "doc__CONTENT" ELSE "doc__parsed"
  ELSE CASE node.tag = "CONTENT" -> "doc__doc_CONTENT"
         [] node.tag = "comment" -> "doc__doc_comment"
         [] OTHER -> "doc__doc_parsed"

RECURSIVE Reductions(_, _)
\* the reductions of the first k top-level constructs of a document
Reductions(doc, k) ==
  IF k = 0 THEN <<>>
  ELSE Reductions(doc, k - 1) \o Effects(doc[k])
         \o <<DocEvent(DocProduction(k, doc[k]), Lower(doc[k]))>>

\* ---- ParserState (utils/parser.py:7-75) ----
\* utils/parser.py:12-19
ParserState(level) ==
  [level |-> level, base_class |-> "object", functions |-> <<>>,
   klass |-> "None", module_body |-> <<>>, root_func |-> "None"]

\* utils/parser.py:43-45: 'Template%s' % (self.level or '')
class_name(state) ==
  IF state.level = 0 THEN "Template" ELSE "Template" \o ToString(state.level)

DuplicateBlockError(name) == [kind |-> "error", exc |-> "DuplicateBlockError", name |-> name]

\* a ParserState that replaces a registered block instead of raising
add_function_overwrites(state, name, func) ==
  [raised |-> FALSE,
   state |-> [state EXCEPT !.functions =
                [n \in DOMAIN @ \cup {name} |-> IF n = name THEN func ELSE @[n]]]]

\* utils/parser.py:21-32: what the call raises, and the state it leaves
add_function(state, name, func) ==
  IF name \in DOMAIN state.functions
  THEN [raised |-> TRUE, state |-> state]
  ELSE [raised |-> FALSE,
        state |-> [state EXCEPT !.functions = (name :> func) @@ @]]

\* utils/parser.py:34-41: self.functions[name].body.append(value)
append_to_block(state, value, name) ==
  [state EXCEPT !.functions[name].body = Append(@, value)]

\* utils/parser.py:139-147: the ClassDef build_class creates
ClassDef(name) == [name |-> name, bases |-> <<>>, body |-> {}]

\* a build_class that takes a registered block named root as the root function
build_class_adoptsRoot(state) ==
  LET made == [state EXCEPT !.klass = class_name(state), !.root_func = "root"]
  IN IF "root" \in DOMAIN state.functions
     THEN [raised |-> FALSE, state |-> made]
     ELSE [raised |-> FALSE,
           state |-> [made EXCEPT !.functions =
                        ("root" :> build_function("root", <<>>)) @@ @]]

\* utils/parser.py:125-152: the state after build_class, which registers
\* the root function last
build_class(state) ==
  add_function([state EXCEPT !.klass = class_name(state), !.root_func = "root"],
               "root", build_function("root", <<>>))

\* a finalize that keeps the root function of a level that has a base class
finalize_keepsRoot(state) == state

\* utils/parser.py:51-54: the state after finalize
finalize(state) ==
  IF state.base_class # "object"
  THEN [state EXCEPT !.root_func = "None",
                     !.functions = [n \in DOMAIN @ \ {"root"} |-> @[n]]]
  ELSE state

\* utils/parser.py:50-75: the class after finalize: its bases, a pass
\* statement for a level with a base class, and the functions left
finalize_klass(state, klass) ==
  [klass EXCEPT
     !.bases = <<state.base_class>>,
     !.body = (IF state.base_class # "object" THEN {Pass} ELSE {})
                \cup klass.body
                \cup {finalize(state).functions[n] : n \in DOMAIN finalize(state).functions}]

\* ---- the running parses ----
\* the value of the doc symbol on the parser's stack: not reduced yet, the
\* list object state.module_body, or a list state.module_body no longer names
NoDoc == [made |-> FALSE, alias |-> FALSE, list |-> <<>>]
AliasDoc == [made |-> TRUE, alias |-> TRUE, list |-> <<>>]
DetachedDoc(list) == [made |-> TRUE, alias |-> FALSE, list |-> list]

\* sp.parse(lex(content), state) about to start on the document of a file
Frame(file, doc, level) ==
  [file |-> file, state |-> ParserState(level),
   agenda |-> Reductions(doc, Len(doc)), doc |-> NoDoc]

\* the list sp.parse returns: the value of the doc symbol
DocValue(fr) == IF fr.doc.alias THEN fr.state.module_body ELSE fr.doc.list

Compiling == compile_ret = [kind |-> "pending"] /\ frames # <<>>
Top == frames[Len(frames)]
Event == Head(Top.agenda)
At(ev) == Compiling /\ Top.agenda # <<>> /\ Event.ev = ev
\* the running parse goes on with the next reduction
Continue(state, doc) ==
  [frames EXCEPT ![Len(frames)] =
     [Top EXCEPT !.state = state, !.doc = doc, !.agenda = Tail(@)]]
\* an exception leaves the running parses where they are
Abort(state) == [frames EXCEPT ![Len(frames)].state = state]

\* structure.py:188-194
block__impl ==
  /\ At("block")
  /\ LET func == build_function(Event.name, Event.body)
         r == add_function(Top.state, Event.name, func)
     IN IF r.raised
        THEN /\ compile_ret' = DuplicateBlockError(Event.name)
             /\ frames' = Abort(r.state)
        ELSE /\ frames' = Continue(r.state, Top.doc)
             /\ UNCHANGED compile_ret
  /\ UNCHANGED <<files, klasses, renderVars>>
  /\ UNCHANGED notTemplate

\* structure.py:63-69, 77-80: the first top-level construct is reduced
FirstReduction ==
  /\ LET r == build_class(Top.state)
         name == class_name(Top.state)
     IN /\ klasses' = (name :> ClassDef(name)) @@ klasses
        /\ IF r.raised
           THEN /\ compile_ret' = DuplicateBlockError("root")
                /\ frames' = Abort(r.state)
           ELSE /\ frames' =
                     Continue([append_to_block(r.state, Event.stmt, "root")
                                 EXCEPT !.module_body = Append(@, name)],
                              AliasDoc)
                /\ UNCHANGED compile_ret
  /\ UNCHANGED <<files, renderVars>>
  /\ UNCHANGED notTemplate

\* structure.py:62-69
doc__CONTENT ==
  /\ At("doc__CONTENT")
  /\ FirstReduction

\* structure.py:72-80
doc__parsed ==
  /\ At("doc__parsed")
  /\ FirstReduction

\* structure.py:85-88, 95-97: a later top-level construct is reduced
LaterReduction ==
  /\ frames' = Continue(append_to_block(Top.state, Event.stmt, "root"), Top.doc)
  /\ UNCHANGED <<files, klasses, compile_ret, renderVars>>
  /\ UNCHANGED notTemplate

\* structure.py:83-88
doc__doc_CONTENT ==
  /\ At("doc__doc_CONTENT")
  /\ LaterReduction

\* structure.py:91-97
doc__doc_parsed ==
  /\ At("doc__doc_parsed")
  /\ LaterReduction

\* structure.py:100-103
doc__doc_comment ==
  /\ At("doc__doc_comment")
  /\ frames' = Continue(Top.state, Top.doc)
  /\ UNCHANGED <<files, klasses, compile_ret, renderVars>>
  /\ UNCHANGED notTemplate

\* structure.py:197-207: the file is read and its parse starts one level up
extends__impl_parse ==
  /\ At("extends")
  /\ Top.state.level < MaxLevel
  /\ frames' = Append(frames, Frame(Event.file, files[Event.file], Top.state.level + 1))
  /\ UNCHANGED <<files, klasses, compile_ret, renderVars>>
  /\ UNCHANGED notTemplate

\* structure.py:207-212: the parse of the parent has returned super_classes
extends__impl_return ==
  /\ Compiling /\ Len(frames) > 1 /\ Top.agenda = <<>>
  /\ LET super_state == Top.state
         super_classes == DocValue(Top)
         below == frames[Len(frames) - 1]
         state == below.state
     IN /\ klasses' = [klasses EXCEPT ![super_state.klass] = finalize_klass(super_state, @)]
        /\ frames' =
             [SubSeq(frames, 1, Len(frames) - 1) EXCEPT ![Len(frames) - 1] =
                [below EXCEPT
                   !.state = [state EXCEPT
                                !.module_body = super_classes,
                                !.base_class = "Template" \o ToString(super_state.level)],
                   !.doc = IF below.doc.alias THEN DetachedDoc(state.module_body) ELSE @,
                   !.agenda = Tail(@)]]
  /\ UNCHANGED <<files, compile_ret, renderVars>>
  /\ UNCHANGED notTemplate

\* ---- the compiled unit and its rendering ----
Compiled(classes) == [kind |-> "module", body |-> classes]

\* the caller of the top-level parse: as extends__impl does for a parent
\* (structure.py:207-208), it finalizes the state and takes the list the
\* parse returned as the module body
Template_compile ==
  /\ Compiling /\ Len(frames) = 1 /\ Top.agenda = <<>>
  /\ klasses' = [klasses EXCEPT ![Top.state.klass] = finalize_klass(Top.state, @)]
  /\ frames' = Abort(finalize(Top.state))
  /\ compile_ret' = Compiled(DocValue(Top))
  /\ UNCHANGED <<files, renderVars>>
  /\ UNCHANGED notTemplate

\* a context value: a string or a list of values
StrValue(x) == [t |-> "str", v |-> x]
ListValue(x) == [t |-> "list", v |-> x]
\* Python truth of a value
Truthy(value) == value.v # (IF value.t = "str" THEN "" ELSE <<>>)

\* one fragment of output; auto_escape is a collaborator, so a fragment
\* records that its text went through it
Fragment(text) == [text |-> text, escaped |-> FALSE]
auto_escape(value) == [text |-> value.v, escaped |-> TRUE]

\* context[<name>], the only expression the modelled documents use
IsLookup(expr) == expr.k = "Subscript" /\ expr.value = Name("context")
Key(expr) == expr.index.s

RECURSIVE Bases(_)
\* the classes an attribute of an instance of cls is looked up in, in
\* order: cls and the chain of the bases finalize has set
Bases(cls) ==
  IF cls = "object" THEN <<>> ELSE <<cls>> \o Bases(klasses[cls].bases[1])

\* does the body of the class define a function of this name
Defines(cls, name) == \E d \in klasses[cls].body : d.st = "def" /\ d.name = name

\* a lookup in which the definition of the topmost ancestor wins
Resolve_topmostFirst(cls, name) ==
  LET mro == Bases(cls)
      k == CHOOSE i \in 1..Len(mro) :
             /\ Defines(mro[i], name)
             /\ \A j \in (i + 1)..Len(mro) : ~Defines(mro[j], name)
  IN CHOOSE d \in klasses[mro[k]].body : d.st = "def" /\ d.name = name

\* self.<name> of an instance of cls: the function of the first class of
\* the chain whose body defines the name
Resolve(cls, name) ==
  LET mro == Bases(cls)
      k == CHOOSE i \in 1..Len(mro) :
             /\ Defines(mro[i], name)
             /\ \A j \in 1..(i - 1) : ~Defines(mro[j], name)
  IN CHOOSE d \in klasses[mro[k]].body : d.st = "def" /\ d.name = name

\* executing the module defines the classes in list order; a class
\* statement needs its base to be defined already
Executes(module) ==
  \A k \in 1..Len(module) :
    klasses[module[k]].bases[1] \in {"object"} \cup {module[j] : j \in 1..(k - 1)}

\* a generator's position: the statements of a function or of a branch,
\* or a for statement between two iterations
Body(fn, stmts) == [k |-> "stmts", fn |-> fn, stmts |-> stmts, i |-> 1]
Loop(stmt, items) == [k |-> "loop", stmt |-> stmt, items |-> items, n |-> 0]
\* calling self.<name>(context) of the Template instance
Call(name) == Body(name, Resolve("Template", name).body)

Running == render_ret = [kind |-> "running"]
Cur == rstack[Len(rstack)]
Executing(sts) ==
  /\ Running /\ rstack # <<>> /\ Cur.k = "stmts"
  /\ Cur.i <= Len(Cur.stmts) /\ Cur.stmts[Cur.i].st \in sts
Stmt == Cur.stmts[Cur.i]
\* the statement is done; the frames it starts go on top
Advance(pushed) ==
  SubSeq(rstack, 1, Len(rstack) - 1) \o <<[Cur EXCEPT !.i = @ + 1]>> \o pushed

\* the module is executed and Template().root(context) is called
Template_render ==
  /\ compile_ret.kind = "module" /\ render_ret = Idle
  /\ IF Executes(compile_ret.body)
     THEN /\ render_ret' = [kind |-> "running"]
          /\ rstack' = <<Call("root")>>
     ELSE /\ render_ret' = [kind |-> "error", exc |-> "NameError"]
          /\ UNCHANGED rstack
  /\ UNCHANGED <<compileVars, context, out>>
  /\ UNCHANGED notTemplate

\* a statement without a body: yield <string> (structure.py:62-69,
\* 215-217), yield auto_escape(context[<name>]) (structure.py:106-114) or
\* the pass extends__impl returns (structure.py:212)
exec_simple ==
  /\ Executing({"yield", "pass"})
  /\ CASE Stmt.st = "pass" -> UNCHANGED out
       [] Stmt.value.k = "Str" -> out' = Append(out, Fragment(Stmt.value.s))
       [] OTHER ->
            /\ Key(Stmt.value.args[1]) \in DOMAIN context
            /\ out' = Append(out, auto_escape(context[Key(Stmt.value.args[1])]))
  /\ rstack' = Advance(<<>>)
  /\ UNCHANGED <<compileVars, context, render_ret>>
  /\ UNCHANGED notTemplate

\* ast.If (structure.py:126-145)
exec_if ==
  /\ Executing({"if"})
  /\ Key(Stmt.test) \in DOMAIN context
  /\ rstack' = Advance(<<Body("", IF Truthy(context[Key(Stmt.test)])
                                THEN Stmt.body ELSE Stmt.orelse)>>)
  /\ UNCHANGED <<compileVars, context, out, render_ret>>
  /\ UNCHANGED notTemplate

\* ast.For (structure.py:148-185): the iterable is evaluated once
exec_for ==
  /\ Executing({"for"})
  /\ Key(Stmt.iter) \in DOMAIN context
  /\ rstack' = Advance(<<Loop(Stmt, context[Key(Stmt.iter)].v)>>)
  /\ UNCHANGED <<compileVars, context, out, render_ret>>
  /\ UNCHANGED notTemplate

\* the next element is stored into context[<target>] and the body runs
for_next ==
  /\ Running /\ rstack # <<>> /\ Cur.k = "loop" /\ Cur.n < Len(Cur.items)
  /\ context' = (Key(Cur.stmt.target) :> Cur.items[Cur.n + 1]) @@ context
  /\ rstack' = SubSeq(rstack, 1, Len(rstack) - 1)
                 \o <<[Cur EXCEPT !.n = @ + 1], Body("", Cur.stmt.body)>>
  /\ UNCHANGED <<compileVars, out, render_ret>>
  /\ UNCHANGED notTemplate

\* the iterable is exhausted: a Python for statement that ends without
\* break runs its orelse (structure.py:176-184, orelse=orelse)
for_exhausted ==
  /\ Running /\ rstack # <<>> /\ Cur.k = "loop" /\ Cur.n = Len(Cur.items)
  /\ rstack' = SubSeq(rstack, 1, Len(rstack) - 1) \o <<Body("", Cur.stmt.orelse)>>
  /\ UNCHANGED <<compileVars, context, out, render_ret>>
  /\ UNCHANGED notTemplate

\* yield from self.<name>(context) (utils/parser.py:227-248)
exec_yield_from ==
  /\ Executing({"yield_from"})
  /\ rstack' = Advance(<<Call(Stmt.name)>>)
  /\ UNCHANGED <<compileVars, context, out, render_ret>>
  /\ UNCHANGED notTemplate

\* the end of a function or of a branch
exec_return ==
  /\ Running /\ rstack # <<>> /\ Cur.k = "stmts" /\ Cur.i > Len(Cur.stmts)
  /\ rstack' = SubSeq(rstack, 1, Len(rstack) - 1)
  /\ UNCHANGED <<compileVars, context, out, render_ret>>
  /\ UNCHANGED notTemplate

\* root has returned: the fragment sequence is exhausted
render_done ==
  /\ Running /\ rstack = <<>>
  /\ render_ret' = [kind |-> "done"]
  /\ UNCHANGED <<compileVars, context, out, rstack>>
  /\ UNCHANGED notTemplate

\* ---- the templates and contexts the model compiles and renders ----
\* the top-level constructs of the compiled template, the file "child"
ChildConstructs ==
  { Text("c"), Var("x"), Comment, ExtendsTag("base"),
    BlockTag("a", <<Text("ca")>>),
    BlockTag("e", <<Text("ce")>>),
    BlockTag("b", <<Text("cb"), BlockTag("a", <<Text("na")>>)>>),
    IfTag("x", <<BlockTag("a", <<Text("ia")>>)>>),
    ForTag("i", "items", <<Var("i"), BlockTag("a", <<Text("fa")>>)>>),
    ForElseTag("i", "items", <<Var("i")>>, <<Text("none")>>) }

ChildDocs == UNION {[1..n -> ChildConstructs] : n \in 1..MaxDoc}

\* the file "base": a template of its own, or one that extends "top" with
\* its first or with a later construct
BaseDocs ==
  { << Text("p"),
       BlockTag("b", <<Text("pb"), BlockTag("a", <<Text("pa")>>)>>),
       BlockTag("d", <<Text("pd")>>) >>,
    << ExtendsTag("top"), BlockTag("b", <<Text("qb")>>) >>,
    << Text("q"), ExtendsTag("top") >> }

\* the file "top"
TopDoc ==
  << Text("g"), BlockTag("a", <<Text("ga")>>), BlockTag("b", <<Text("gb")>>),
     BlockTag("d", <<Text("gd")>>) >>

\* the lists context["items"] is drawn from: "1", "2", ... in order
ItemLists == {[k \in 1..n |-> StrValue(ToString(k))] : n \in 0..MaxItems}

InitTemplate ==
  /\ \E child \in ChildDocs, base \in BaseDocs :
       files = [child |-> child, base |-> base, top |-> TopDoc]
  /\ frames = <<Frame("child", files.child, 0)>>
  /\ klasses = <<>>
  /\ compile_ret = [kind |-> "pending"]
  /\ \E items \in ItemLists :
       context = [items |-> ListValue(items), x |-> StrValue("X")]
  /\ rstack = <<>>
  /\ out = <<>>
  /\ render_ret = Idle
  /\ parked = Idle
  /\ IdleSplit /\ IdleExpr

NextTemplate ==
  \/ block__impl
  \/ doc__CONTENT
  \/ doc__parsed
  \/ doc__doc_CONTENT
  \/ doc__doc_parsed
  \/ doc__doc_comment
  \/ extends__impl_parse
  \/ extends__impl_return
  \/ Template_compile
  \/ Template_render
  \/ exec_simple
  \/ exec_if
  \/ exec_for
  \/ for_next
  \/ for_exhausted
  \/ exec_yield_from
  \/ exec_return
  \/ render_done

SpecTemplate == InitTemplate /\ [][NextTemplate]_vars

\* ---- two render calls on one compiled template ----
\* utils/parser.py:155-187: the generator a call root(context) returns has
\* its own frame: the context it was called with, its position, and what
\* it has yielded to its consumer
Suspended(ctx, position, fragments, ret) ==
  [context |-> ctx, rstack |-> position, out |-> fragments, render_ret |-> ret]

\* a generator that reads the context of whichever call ran last
ContextOf_sharedByTheCalls(call) == context

\* utils/parser.py:163-164: context is an argument of the generated
\* function, so a generator goes on with the context of its own call
ContextOf(call) == call.context

\* the consumers of the two calls take turns in any order: the generator
\* that was advancing is suspended and the other one goes on
resume_other ==
  /\ compile_ret.kind = "module" /\ parked # Idle
  /\ context' = ContextOf(parked)
  /\ rstack' = parked.rstack
  /\ out' = parked.out
  /\ render_ret' = parked.render_ret
  /\ parked' = Suspended(context, rstack, out, render_ret)
  /\ UNCHANGED <<compileVars, splitVars, exprVars>>

\* the templates the two calls render: loops, branches, blocks, inheritance
RenderDocs ==
  { << Text("c"), ForElseTag("i", "items", <<Var("i")>>, <<Text("none")>>) >>,
    << ForTag("i", "items", <<Var("i"), BlockTag("a", <<Text("fa")>>)>>), Comment >>,
    << IfTag("x", <<BlockTag("a", <<Text("ia")>>)>>), Var("x") >>,
    << ExtendsTag("base"), Text("c") >> }

InitRenders ==
  /\ \E child \in RenderDocs : files = [child |-> child, base |-> TopDoc, top |-> TopDoc]
  /\ frames = <<Frame("child", files.child, 0)>>
  /\ klasses = <<>>
  /\ compile_ret = [kind |-> "pending"]
  /\ \E items \in ItemLists :
       context = [items |-> ListValue(items), x |-> StrValue("X")]
  /\ \E items \in ItemLists :
       parked = Suspended([items |-> ListValue(items), x |-> StrValue("X")], <<>>, <<>>, Idle)
  /\ rstack = <<>>
  /\ out = <<>>
  /\ render_ret = Idle
  /\ IdleSplit /\ IdleExpr

NextRenders ==
  \/ NextTemplate
  \/ resume_other

SpecRenders == InitRenders /\ [][NextRenders]_vars

\* ---- templates with a block named root ----
RootBlock == BlockTag("root", <<Text("r")>>)

\* the constructs of these templates: the block at the top level or inside
\* another tag, next to text, a comment and an extends tag
RootConstructs ==
  { Text("c"), Comment, ExtendsTag("base"), RootBlock,
    BlockTag("a", <<RootBlock>>), IfTag("x", <<RootBlock>>) }

RootFiles ==
  { [child |-> child, base |-> base, top |-> top] :
      child \in RenderDocs \cup UNION {[1..n -> RootConstructs] : n \in 1..MaxDoc},
      base \in { TopDoc,
                 << ExtendsTag("top"), RootBlock >>,
                 << Text("p"), ExtendsTag("top") >> },
      top \in { TopDoc, << Text("g"), BlockTag("a", <<Text("ga"), RootBlock>>) >> } }

InitRoot ==
  /\ files \in RootFiles
  /\ frames = <<Frame("child", files.child, 0)>>
  /\ klasses = <<>>
  /\ compile_ret = [kind |-> "pending"]
  /\ \E items \in ItemLists :
       context = [items |-> ListValue(items), x |-> StrValue("X")]
  /\ rstack = <<>>
  /\ out = <<>>
  /\ render_ret = Idle
  /\ parked = Idle
  /\ IdleSplit /\ IdleExpr

SpecRoot == InitRoot /\ [][NextTemplate]_vars

\* ---- extends chains that come back to a file ----
\* the compiled template and its parent: chains that end at "top", a
\* template that extends itself, and two templates that extend each other
ChainFiles ==
  { [child |-> child, base |-> base, top |-> TopDoc] :
      child \in RenderDocs \cup { << ExtendsTag("child"), BlockTag("a", <<Text("ca")>>) >>,
                                  << Text("c"), ExtendsTag("child") >> },
      base \in { TopDoc,
                 << ExtendsTag("top"), BlockTag("b", <<Text("qb")>>) >>,
                 << ExtendsTag("child") >>,
                 << Text("p"), ExtendsTag("base") >> } }

InitChains ==
  /\ files \in ChainFiles
  /\ frames = <<Frame("child", files.child, 0)>>
  /\ klasses = <<>>
  /\ compile_ret = [kind |-> "pending"]
  /\ \E items \in ItemLists :
       context = [items |-> ListValue(items), x |-> StrValue("X")]
  /\ rstack = <<>>
  /\ out = <<>>
  /\ render_ret = Idle
  /\ parked = Idle
  /\ IdleSplit /\ IdleExpr

SpecChains == InitChains /\ [][NextTemplate]_vars

(***************************************************************************)
(* Properties of split_tag_args_string                                     *)
(***************************************************************************)
IsWhitespace(ch) == ch \in {SPACE, TAB, NL}

\* the position at or after k in cur of the first unescaped occurrence of q
\* (0 when there is none); an escaped pair in cur is a backslash and a character
RECURSIVE CloseAt(_, _, _)
CloseAt(cur, q, k) ==
  IF k > Len(cur) THEN 0
  ELSE IF cur[k] = BS THEN CloseAt(cur, q, k + 2)
  ELSE IF cur[k] = q THEN k
  ELSE CloseAt(cur, q, k + 1)

\* one quoted substring opens at the first character of cur and closes at its last
WrapsEntire(cur) ==
  /\ Len(cur) >= 2
  /\ cur[1] \in {DQ, SQ}
  /\ CloseAt(cur, cur[1], 2) = Len(cur)

\* C7: an argument ends at every whitespace character (space, tab, newline) that
\* is outside both quote kinds, at parenthesis depth 0 and not escaped, and at
\* no other position; separating whitespace never yields an empty argument.
C7_SplitsAtEveryWhitespace ==
  [][Scanning =>
       LET splits == /\ IsWhitespace(c) /\ ~escaped
                     /\ ~quote /\ ~squote /\ parens = 0
       IN  /\ splits => /\ current' = <<>>
                        /\ Len(args') = Len(args) + (IF current = <<>> THEN 0 ELSE 1)
           /\ ~splits => args' = args]_vars

\* C8: the quote characters of an emitted argument are stripped only if one
\* quoted substring wraps the entire argument; otherwise the argument is emitted
\* with all its quote characters.
C8_StripsOnlyWholeWrap ==
  [][(split_ret.kind = "pending" /\ current # <<>>
        /\ (Len(args') = Len(args) + 1 \/ split_ret'.kind = "list"))
      => LET emitted == IF split_ret'.kind = "list"
                        THEN split_ret'.args[Len(split_ret'.args)]
                        ELSE args'[Len(args')]
         IN  emitted = IF WrapsEntire(current)
                       THEN SubSeq(current, 2, Len(current) - 1)
                       ELSE current]_vars

C10_FailureModes ==
  /\ Cardinality({ErrClosingUnopened, ErrUnclosedDQuote, ErrUnclosedSQuote,
                  ErrUnclosedParen, ErrUnusedEscape}) = 5
  /\ split_ret.kind = "error" => split_ret.args = <<>>
  /\ split_ret.kind # "pending" =>
       /\ pos < Len(s) =>
            /\ s[pos + 1] = RP /\ ~escaped /\ ~quote /\ ~squote /\ parens = 0
            /\ split_ret = Raised(ErrClosingUnopened, 0)
       /\ (pos = Len(s) /\ quote) => split_ret = Raised(ErrUnclosedDQuote, 0)
       /\ (pos = Len(s) /\ squote) => split_ret = Raised(ErrUnclosedSQuote, 0)
       /\ (pos = Len(s) /\ ~quote /\ ~squote /\ parens > 0) =>
            split_ret = Raised(ErrUnclosedParen, parens)
       /\ (pos = Len(s) /\ ~quote /\ ~squote /\ parens = 0 /\ escaped) =>
            split_ret = Raised(ErrUnusedEscape, 0)
       /\ split_ret.kind = "list" =>
            pos = Len(s) /\ ~quote /\ ~squote /\ parens = 0 /\ ~escaped

\* two parentheses are still open when the input ends on a pending escape
C10_Witness ==
  /\ split_ret = Raised(ErrUnclosedParen, 2)
  /\ escaped
  /\ pos = Len(s)

(***************************************************************************)
(* Properties of the expression parser.  The grouping the specification    *)
(* asks for is computed from the source expression, independently of the   *)
(* parser's table: multiplicative operators bind tighter than additive,    *)
(* these tighter than comparisons, these tighter than and/or, these        *)
(* tighter than the filter pipe; equal levels group left to right.         *)
(***************************************************************************)
BindingStrength(p) ==
  CASE p \in {"MUL", "DIV", "MOD"} -> 4
    [] p \in {"PLUS", "MINUS"} -> 3
    [] p \in CmpTokens -> 2
    [] p \in {"AND", "OR"} -> 1

\* the node a binary operator is expected to build
ExpectedNode(p, l, r) ==
  IF p \in BinTokens THEN BinOp(l, BinopMapping[p], r)
  ELSE IF p \in CmpTokens THEN Compare(l, CmpopMapping[p], r)
  ELSE [k |-> "BoolOp", op |-> p, left |-> l, right |-> r]

FilterNamed(names) == get_filter_func(get_lookup_name(names))

\* the call a filter piece is expected to build around its left operand
ExpectedFilter(p, left) ==
  CASE p = "plain" -> build_call(FilterNamed(<<Str("f")>>), <<left>>, <<>>)
    [] p = "colon" ->
         build_call(FilterNamed(<<Str("a"), Str("b")>>),
                    <<left, ContextLookup("y")>>, <<>>)
    [] p = "empty" -> build_call(FilterNamed(<<Str("f")>>), <<left>>, <<>>)
    [] p = "args" ->
         build_call(FilterNamed(<<Str("f")>>), <<left, Num(8), Num(9)>>, <<>>)
    [] p = "kwargs" ->
         build_call(FilterNamed(<<Str("f")>>), <<left>>,
                    <<Keyword("k", Num(8)), Keyword("m", Num(9))>>)
    [] p = "full" ->
         build_call(FilterNamed(<<Str("g")>>), <<left, Num(8)>>,
                    <<Keyword("k", Num(9))>>)

\* the tree of the operand at position i
OperandTree(src, i) ==
  IF i = 0 THEN Num(1) ELSE Num(i + 1)

\* applications from..to of src, each binary one with its right operand
Items(src, from, to) ==
  [i \in 1..(to - from + 1) |->
     [p |-> src.pieces[from + i - 1], rhs |-> OperandTree(src, from + i - 1)]]

\* binary operators only: split at the last operator of the weakest level
RECURSIVE ExpectedBinary(_, _)
ExpectedBinary(atom, items) ==
  IF items = <<>> THEN atom
  ELSE LET weakest == CHOOSE w \in 1..4 :
                        /\ \E i \in DOMAIN items : BindingStrength(items[i].p) = w
                        /\ \A i \in DOMAIN items : BindingStrength(items[i].p) >= w
           m == CHOOSE i \in DOMAIN items :
                  /\ BindingStrength(items[i].p) = weakest
                  /\ \A j \in DOMAIN items :
                       BindingStrength(items[j].p) = weakest => j <= i
       IN  ExpectedNode(items[m].p,
                        ExpectedBinary(atom, SubSeq(items, 1, m - 1)),
                        ExpectedBinary(items[m].rhs, SubSeq(items, m + 1, Len(items))))

\* a filter takes everything to its left (within the group) as its operand
RECURSIVE ExpectedOf(_, _)
ExpectedOf(atom, items) ==
  IF \E i \in DOMAIN items : items[i].p \in FilterPieces
  THEN LET m == CHOOSE i \in DOMAIN items :
                  /\ items[i].p \in FilterPieces
                  /\ \A j \in DOMAIN items : items[j].p \in FilterPieces => j <= i
       IN  ExpectedBinary(
             ExpectedFilter(items[m].p, ExpectedOf(atom, SubSeq(items, 1, m - 1))),
             SubSeq(items, m + 1, Len(items)))
  ELSE ExpectedBinary(atom, items)

\* the tree the specification expects for src; a parenthesised group is one operand
ExpectedTree(src) ==
  LET n == Len(src.pieces) IN
  IF src.paren = <<>> THEN ExpectedOf(OperandTree(src, 0), Items(src, 1, n))
  ELSE LET k == src.paren[1]
           j == src.paren[2]
           group == ExpectedOf(OperandTree(src, k), Items(src, k + 1, j))
       IN  IF k = 0 THEN ExpectedOf(group, Items(src, j + 1, n))
           ELSE ExpectedOf(OperandTree(src, 0),
                           Items(src, 1, k - 1)
                             \o <<[p |-> src.pieces[k], rhs |-> group]>>
                             \o Items(src, j + 1, n))

\* the value of an arithmetic tree
RECURSIVE Eval(_)
Eval(t) ==
  IF t.k = "Num" THEN t.n
  ELSE IF t.op = "Add" THEN Eval(t.left) + Eval(t.right)
  ELSE IF t.op = "Sub" THEN Eval(t.left) - Eval(t.right)
  ELSE Eval(t.left) * Eval(t.right)

UsesFilter(src) == \E i \in DOMAIN src.pieces : src.pieces[i] \in FilterPieces
UsesBoolOp(src) == \E i \in DOMAIN src.pieces : src.pieces[i] \in {"AND", "OR"}
ParseDone == expr_ret.kind \in {"ast", "error"}

One == Tok("NUMBER", "1")
Source(f, ps, pr) == [first |-> f, pieces |-> ps, paren |-> pr]

\* C5: filters chain left to right and each filter form passes the expression
\* to the left of the pipe as the first positional argument, before the explicit
\* arguments in their written order: 1 | f | f is f(f(1)), 1 | a.b: y is a.b(1, y).
C5_FiltersThreadLeftOperand ==
  (ParseDone /\ UsesFilter(expr_src) /\ ~UsesBoolOp(expr_src)) =>
    /\ expr_ret.kind = "ast"
    /\ expr_ret.tree = ExpectedTree(expr_src)
    /\ expr_src = Source(One, <<"plain", "plain">>, <<>>) =>
         expr_ret.tree =
           build_call(FilterNamed(<<Str("f")>>),
                      <<build_call(FilterNamed(<<Str("f")>>), <<Num(1)>>, <<>>)>>,
                      <<>>)
    /\ expr_src = Source(One, <<"colon">>, <<>>) =>
         expr_ret.tree.args = <<Num(1), ContextLookup("y")>>

\* 1 | f | g(8, k=9) was parsed to g(f(1), 8, k=9)
C5_Witness ==
  /\ expr_src = Source(One, <<"plain", "full">>, <<>>)
  /\ expr_ret.kind = "ast"
  /\ expr_ret.tree.args =
       <<build_call(FilterNamed(<<Str("f")>>), <<Num(1)>>, <<>>), Num(8)>>
  /\ expr_ret.tree.keywords = <<Keyword("k", Num(9))>>

\* C6: every expression built from operands, parentheses, * + - comparisons,
\* and/or and filters parses to the grouping of the declared precedence levels;
\* 1 + 2 * 3 yields 7 and (1 + 2) * 3 yields 9.
C6_GroupsByPrecedence ==
  ParseDone =>
    /\ expr_ret.kind = "ast"
    /\ expr_ret.tree = ExpectedTree(expr_src)
    /\ expr_src = Source(One, <<"PLUS", "MUL">>, <<>>) => Eval(expr_ret.tree) = 7
    /\ expr_src = Source(One, <<"PLUS", "MUL">>, <<0, 1>>) => Eval(expr_ret.tree) = 9

\* What holds of the parser: the grouping of C6 for every expression that uses
\* neither "and" nor "or".
GroupsByPrecedenceWithoutBoolOps ==
  (ParseDone /\ ~UsesBoolOp(expr_src)) =>
    /\ expr_ret.kind = "ast"
    /\ expr_ret.tree = ExpectedTree(expr_src)
    /\ expr_src = Source(One, <<"PLUS", "MUL">>, <<>>) => Eval(expr_ret.tree) = 7
    /\ expr_src = Source(One, <<"PLUS", "MUL">>, <<0, 1>>) => Eval(expr_ret.tree) = 9

\* "and" and "or" have a level in the precedence table and no production:
\* the parser rejects the token
BoolOpsAreRejected ==
  (ParseDone /\ UsesBoolOp(expr_src)) =>
    expr_ret = [kind |-> "error", token |-> "AND"]

(***************************************************************************)
(* Properties of the structure parser, inheritance and rendering.          *)
(* What a template means is read off the sources of the files: the blocks  *)
(* each file defines, the file each file extends, and a rendering of the   *)
(* statements by structural recursion.                                     *)
(***************************************************************************)
RECURSIVE BlocksOf(_), BlocksOfBody(_)
\* the block tags of a construct, in the order of their endblock tags
BlocksOf(node) ==
  CASE node.tag \in {"if", "for"} -> BlocksOfBody(node.body) \o BlocksOfBody(node.orelse)
    [] node.tag = "block" -> Append(BlocksOfBody(node.body), node)
    [] OTHER -> <<>>

BlocksOfBody(body) ==
  IF body = <<>> THEN <<>>
  ELSE BlocksOfBody(SubSeq(body, 1, Len(body) - 1)) \o BlocksOf(body[Len(body)])

\* the names of the blocks of a file
BlockNames(file) ==
  {BlocksOfBody(files[file])[k].name : k \in 1..Len(BlocksOfBody(files[file]))}

\* the file has two blocks of this name
Repeats(file, name) ==
  LET blocks == BlocksOfBody(files[file])
  IN \E i, j \in 1..Len(blocks) : i < j /\ blocks[i].name = name /\ blocks[j].name = name

\* the statements of the first block of this name of the file
SourceBlock(file, name) ==
  LET blocks == BlocksOfBody(files[file])
      k == CHOOSE i \in 1..Len(blocks) :
             blocks[i].name = name /\ \A j \in 1..(i - 1) : blocks[j].name # name
  IN build_function(name, inner(blocks[k].body)).body

\* the statements of the top-level content of the file
SourceRoot(file) == build_function("root", inner(files[file])).body

\* the extends tags of a file; the last one names its parent
ExtendsAt(file) == {k \in 1..Len(files[file]) : files[file][k].tag = "extends"}
Extends(file) == ExtendsAt(file) # {}
Parent(file) ==
  files[file][CHOOSE k \in ExtendsAt(file) : \A j \in ExtendsAt(file) : j <= k].file

RECURSIVE Lineage(_)
\* the file, its parent, the parent of its parent, ...
Lineage(file) ==
  <<file>> \o (IF Extends(file) THEN Lineage(Parent(file)) ELSE <<>>)

Topmost(lin) == lin[Len(lin)]

\* the first file of the lineage that defines a block of this name
Nearest(lin, name) ==
  lin[CHOOSE i \in 1..Len(lin) :
        /\ name \in BlockNames(lin[i])
        /\ \A j \in 1..(i - 1) : name \notin BlockNames(lin[j])]

\* the two readings of a for tag's else branch, and of a block the first
\* file of the lineage does not define
PythonForElse == [else |-> "after the loop", blocks |-> "nearest"]
ElseOnlyWhenEmpty == [else |-> "only when empty", blocks |-> "nearest"]
ParentAlone == [else |-> "after the loop", blocks |-> "as in the parent alone"]

RECURSIVE Fragments(_, _, _, _), Iterations(_, _, _, _, _)
\* the fragments the statements yield under a context, with blocks looked
\* up along the lineage
Fragments(stmts, ctx, lin, reading) ==
  IF stmts = <<>> THEN <<>>
  ELSE LET stmt == Head(stmts)
           first ==
             CASE stmt.st = "pass" -> <<>>
               [] stmt.st = "yield" ->
                    IF stmt.value.k = "Str" THEN <<Fragment(stmt.value.s)>>
                    ELSE <<auto_escape(ctx[Key(stmt.value.args[1])])>>
               [] stmt.st = "if" ->
                    Fragments(IF Truthy(ctx[Key(stmt.test)]) THEN stmt.body ELSE stmt.orelse,
                              ctx, lin, reading)
               [] stmt.st = "for" ->
                    LET items == ctx[Key(stmt.iter)].v
                    IN Iterations(stmt, items, ctx, lin, reading)
                         \o (IF items = <<>> \/ reading.else = "after the loop"
                             THEN Fragments(stmt.orelse, ctx, lin, reading)
                             ELSE <<>>)
               [] stmt.st = "yield_from" ->
                    IF reading.blocks = "nearest" \/ stmt.name \in BlockNames(lin[1])
                    THEN Fragments(SourceBlock(Nearest(lin, stmt.name), stmt.name),
                                   ctx, lin, reading)
                    ELSE Fragments(<<stmt>>, ctx, Tail(lin), reading)
       IN first \o Fragments(Tail(stmts), ctx, lin, reading)

\* the fragments of the body of a for statement, once per element
Iterations(stmt, items, ctx, lin, reading) ==
  IF items = <<>> THEN <<>>
  ELSE Fragments(stmt.body, (Key(stmt.target) :> Head(items)) @@ ctx, lin, reading)
         \o Iterations(stmt, Tail(items), ctx, lin, reading)

\* the context the render was called with
CallerContext == [key \in {"items", "x"} |-> context[key]]
\* the fragments of the compiled template under a reading
Rendering(reading) ==
  Fragments(SourceRoot(Topmost(Lineage("child"))), CallerContext, Lineage("child"), reading)

RenderDone == render_ret = [kind |-> "done"]
Rendered == Running \/ RenderDone

\* the render agrees with the structural rendering in which the else branch
\* of a for tag runs after every loop
ElseRunsAfterEveryLoop == RenderDone => out = Rendering(PythonForElse)

\* C1: the else/empty branch of a for tag runs if and only if the iterable
\* produced no element; with one or more elements the output is the body
\* renderings in order and the else branch contributes nothing
C1_ElseRunsOnlyWhenEmpty == RenderDone => out = Rendering(ElseOnlyWhenEmpty)

\* compilation fails exactly when one file of the lineage has two blocks of
\* one name, then with DuplicateBlockError of such a name
DuplicateIffRepeatedInOneFile ==
  /\ compile_ret.kind = "error" =>
       /\ compile_ret = DuplicateBlockError(compile_ret.name)
       /\ Repeats(Top.file, compile_ret.name)
  /\ compile_ret.kind = "module" =>
       \A k \in 1..Len(Lineage("child")) :
         \A name \in BlockNames(Lineage("child")[k]) : ~Repeats(Lineage("child")[k], name)

\* the function frames of the render: calls of self.<name>
Calls == {k \in 1..Len(rstack) : rstack[k].k = "stmts" /\ rstack[k].fn # ""}

\* C2 (amended): a block name invoked at render time runs the definition of
\* the nearest level, from the child up, that defines it, also when the
\* invocation is nested in a parent block the child does not define; a
\* block of the child named like a block of an ancestor raises no
\* duplicate-block error
C2_NearestDefinitionRuns ==
  Extends("child") =>
    /\ compile_ret.kind = "error" => Repeats(Top.file, compile_ret.name)
    /\ Rendered =>
         \A k \in Calls : rstack[k].fn # "root" =>
           rstack[k].stmts = SourceBlock(Nearest(Lineage("child"), rstack[k].fn), rstack[k].fn)
    /\ RenderDone => out = Rendering(PythonForElse)

\* C2: as C2 (amended), and a parent block the child does not define
\* renders exactly as in the parent alone
C2_ParentBlocksRenderAsInParentAlone ==
  Extends("child") /\ RenderDone => out = Rendering(ParentAlone)

C2_Witness ==
  /\ RenderDone
  /\ files.child = <<ExtendsTag("base"), BlockTag("a", <<Text("ca")>>)>>
  /\ files.base[1] = Text("p")
  /\ out = << Fragment(""), Fragment("p"), Fragment(""), Fragment("pb"),
              Fragment(""), Fragment("ca"), Fragment(""), Fragment("pd") >>

\* the fragments of the top-level content of the child outside its block
\* definitions: text, emits and the output of if and for tags
RECURSIVE WithoutBlocks(_)
WithoutBlocks(stmts) ==
  IF stmts = <<>> THEN <<>>
  ELSE LET stmt == Head(stmts)
           kept == CASE stmt.st = "yield_from" -> <<>>
                     [] stmt.st = "if" ->
                          <<[stmt EXCEPT !.body = WithoutBlocks(@), !.orelse = WithoutBlocks(@)]>>
                     [] stmt.st = "for" ->
                          <<[stmt EXCEPT !.body = WithoutBlocks(@), !.orelse = WithoutBlocks(@)]>>
                     [] OTHER -> <<stmt>>
       IN kept \o WithoutBlocks(Tail(stmts))

ChildContent ==
  LET frags == Fragments(WithoutBlocks(inner(files.child)), CallerContext, <<"child">>, PythonForElse)
  IN {frags[k] : k \in 1..Len(frags)} \ {Fragment("")}

\* the classes finalize has run on
Finalized == {cls \in DOMAIN klasses : klasses[cls].bases # <<>>}

\* the blocks the ancestors of the child define
AncestorBlocks ==
  UNION {BlockNames(Lineage("child")[k]) : k \in 2..Len(Lineage("child"))}

\* C3: for a template that extends a parent the root of the resolved unit is
\* the root of the parent: after finalize a level with a base class defines
\* no root, the root that runs is the one of the topmost ancestor, no
\* top-level content of the child outside block definitions is rendered,
\* and the block-delegation markers of the child invoke nothing: only
\* blocks of the ancestors are invoked
C3_RootIsTheParentsRoot ==
  /\ \A cls \in Finalized : klasses[cls].bases # <<"object">> => ~Defines(cls, "root")
  /\ Extends("child") =>
       /\ compile_ret.kind = "module" => "root" \notin DOMAIN frames[1].state.functions
       /\ Rendered /\ rstack # <<>> =>
            rstack[1].fn = "root" /\ rstack[1].stmts = SourceRoot(Topmost(Lineage("child")))
       /\ \A k \in 1..Len(out) : out[k] \notin ChildContent
       /\ \A k \in Calls : rstack[k].fn \in {"root"} \cup AncestorBlocks

C3_Witness ==
  /\ RenderDone
  /\ files.child = <<ExtendsTag("base"), Text("c")>>
  /\ files.base[1] = Text("p")
  /\ Fragment("p") \in {out[k] : k \in 1..Len(out)}
  /\ ~Defines("Template", "root")

\* C4: defining a block whose name is already registered at the level
\* fails with DuplicateBlockError of that name and leaves the block map of
\* the level as it was; any other block definition is added to the map
C4_DuplicateBlockFails ==
  [][At("block") =>
       LET functions == Top.state.functions
           after == frames'[Len(frames)].state.functions
       IN /\ Len(frames') = Len(frames)
          /\ IF Event.name \in DOMAIN functions
             THEN /\ compile_ret' = DuplicateBlockError(Event.name)
                  /\ after = functions
             ELSE /\ compile_ret'.kind = "pending"
                  /\ DOMAIN after = DOMAIN functions \cup {Event.name}
                  /\ \A name \in DOMAIN functions : after[name] = functions[name]]_vars

C4_Witness ==
  /\ compile_ret = DuplicateBlockError("a")
  /\ files.child = << IfTag("x", <<BlockTag("a", <<Text("ia")>>)>>),
                      BlockTag("a", <<Text("ca")>>) >>
  /\ DOMAIN Top.state.functions = {"a", "root"}
  /\ Top.state.functions["a"] = build_function("a", <<build_yield(Str("ia"))>>)

\* a render step changes the caller's context at most at the targets of
\* the for tags
OnlyLoopTargetsChange ==
  [][\A key \in DOMAIN context :
       key # "i" => key \in DOMAIN context' /\ context'[key] = context[key]]_vars

\* C11: rendering only reads the caller's context: no render step adds,
\* overwrites or removes an entry, so after the fragments are consumed the
\* context maps the same keys to the same values as before the render
C11_RenderOnlyReadsContext == [][context' = context]_vars

\* the fragments a call with this context yields when it runs alone
Alone(ctx) ==
  Fragments(SourceRoot(Topmost(Lineage("child"))),
            [key \in {"items", "x"} |-> ctx[key]], Lineage("child"), PythonForElse)

\* is the first sequence the beginning of the second
IsPrefix(head, whole) ==
  Len(head) <= Len(whole) /\ head = SubSeq(whole, 1, Len(head))

\* what a call has yielded is the beginning of what it yields alone, and
\* all of it when its generator is exhausted
YieldsAsAlone(call) ==
  /\ IsPrefix(call.out, Alone(call.context))
  /\ call.render_ret = [kind |-> "done"] => call.out = Alone(call.context)

\* C12: two render calls on one compiled template, each with its own
\* context, yield under every interleaving of their steps the fragments
\* each yields alone, and no render step changes the compiled template
C12_InterleavedRendersAgree ==
  /\ [](parked # Idle /\ compile_ret.kind = "module" =>
          /\ YieldsAsAlone(Suspended(context, rstack, out, render_ret))
          /\ YieldsAsAlone(parked))
  /\ [][compile_ret.kind = "module" =>
          klasses' = klasses /\ compile_ret' = compile_ret]_vars

\* both generators are inside their loops, at different elements
C12_Witness ==
  /\ parked # Idle
  /\ Running /\ parked.render_ret = [kind |-> "running"]
  /\ context.items # parked.context.items
  /\ "i" \in DOMAIN context /\ "i" \in DOMAIN parked.context
  /\ context.i # parked.context.i
  /\ \E k \in 1..Len(rstack) : rstack[k].k = "loop"
  /\ \E k \in 1..Len(parked.rstack) : parked.rstack[k].k = "loop"

RECURSIVE ChainUpTo(_, _)
\* the first n files of the chain of extends tags that starts at the file
ChainUpTo(file, n) ==
  IF n = 0 THEN <<>>
  ELSE <<file>> \o (IF Extends(file) THEN ChainUpTo(Parent(file), n - 1) ELSE <<>>)

\* the chain of the compiled template comes back to a file it has left
Cyclic ==
  LET n == Cardinality(DOMAIN files)
  IN Len(ChainUpTo("child", n + 1)) > n

\* a chain that comes back to a file raises nothing and returns nothing:
\* the parse one level up starts again and again
CyclicChainsKeepRecursing ==
  Cyclic => /\ compile_ret.kind = "pending"
            /\ \A k \in 1..Len(frames) : frames[k].state.level = k - 1
            /\ frames # <<>>

\* a chain that ends is followed to its end: it has fewer levels than files
AcyclicChainsAreShort ==
  ~Cyclic => \A k \in 1..Len(frames) : frames[k].state.level < Cardinality(DOMAIN files)

\* C13: the resolver is guarded, so that also for a self-referential or
\* mutually referential extends chain the inheritance level does not grow
\* without bound: it stays below the bound of the model, whatever that is
C13_LevelIsGuarded ==
  \A k \in 1..Len(frames) : frames[k].state.level < MaxLevel

(***************************************************************************)
(* Where a call finds its callee.                                          *)
(***************************************************************************)
RECURSIVE CallsIn(_)
\* the Call nodes of a tree
CallsIn(t) ==
  LET Each(seq) == UNION {CallsIn(seq[i]) : i \in DOMAIN seq} IN
  IF t.k = "Call"
  THEN {t} \cup CallsIn(t.func) \cup Each(t.args)
       \cup UNION {CallsIn(t.keywords[i].value) : i \in DOMAIN t.keywords}
  ELSE IF t.k \in {"BinOp", "Compare"} THEN CallsIn(t.left) \cup CallsIn(t.right)
  ELSE IF t.k = "Subscript" THEN CallsIn(t.value) \cup CallsIn(t.index)
  ELSE IF t.k = "Attribute" THEN CallsIn(t.value)
  ELSE IF t.k = "List" THEN Each(t.elts)
  ELSE {}

\* the callee is looked up by name in a table when the call is evaluated
CalleeIsNamed(call) == call.func.k = "Subscript" /\ call.func.value.k = "Name"
\* the table that lookup reads: "filters" or "context"
CalleeTable(call) == call.func.value.id

\* the calls of the parsed expression whose callee is a name of the template
NamedCalls == {call \in CallsIn(expr_ret.tree) : CalleeIsNamed(call)}

UsesCall(src) == \E i \in DOMAIN src.pieces : src.pieces[i] \in CallPieces
CallsTheName(src) == src.pieces # <<>> /\ src.pieces[1] \in CallPieces

\* no table is read while the expression is parsed: whatever name is called
\* or applied as a filter, the parse returns a tree
NamesAreNotResolvedByTheParse ==
  (ParseDone /\ ~UsesBoolOp(expr_src)) => expr_ret.kind = "ast"

\* a filter application reads its callee from the filter table
FiltersResolveInFilterTable ==
  expr_ret.kind = "ast" =>
    \A call \in NamedCalls :
      call.func.index.k = "Call" => CalleeTable(call) = "filters"

\* a call name(args) reads its callee from the data context
FunctionsResolveInContext ==
  (expr_ret.kind = "ast" /\ CallsTheName(expr_src)) =>
    \E call \in NamedCalls : call.func = ContextLookup(expr_src.first.str)

\* C14: filter applications and free-function calls both read their callee
\* from the filter table when the parsed expression is evaluated
C14_CalleesResolveInFilterTable ==
  expr_ret.kind = "ast" =>
    \A call \in NamedCalls : CalleeTable(call) = "filters"

\* the scan is at its end without a pending escape, an open quote or an open
\* parenthesis
CleanEnd == pos = Len(s) /\ ~escaped /\ ~quote /\ ~squote /\ parens = 0

\* what holds after every consumed character and of every result
ScanInvariant ==
  /\ parens >= 0
  /\ ~(quote /\ squote)
  /\ split_ret.kind = "list" => CleanEnd /\ split_ret.args = EmitArg(args, current)
  /\ (split_ret.kind # "pending" /\ ~CleanEnd) => split_ret.kind = "error"

\* the depth changes by one, on a parenthesis read outside both kinds of quote
DepthChangesOnlyOnParens ==
  parens' # parens =>
    /\ ~escaped /\ ~quote /\ ~squote
    /\ \/ c = LP /\ parens' = parens + 1
       \/ c = RP /\ parens' = parens - 1
    /\ quote' = quote /\ squote' = squote

\* C15: during the scan of split_tag_args_string the depth is never negative,
\* the two quote flags are never both set and the depth changes only on
\* parentheses outside quotes; a list is returned only from a clean end of the
\* scan, and every other end raises an error
C15_ScanInvariant ==
  /\ []ScanInvariant
  /\ [][DepthChangesOnlyOnParens]_vars

\* "(" ( was split to the one argument ((: the parenthesis inside the quotes
\* left the depth alone, the one after them opened and never closed
C15_Witness ==
  /\ s = <<DQ, LP, DQ, LP>>
  /\ split_ret = Raised(ErrUnclosedParen, 1)
  /\ ~quote /\ ~squote /\ ~escaped

\* the files the extends tags of a file name
Refs(file) == {files[file][k].file : k \in ExtendsAt(file)}

RECURSIVE ReachedFrom(_, _)
\* the files reached from a set of files in at most n hops
ReachedFrom(fs, n) ==
  IF n = 0 THEN fs ELSE ReachedFrom(fs \cup UNION {Refs(f) : f \in fs}, n - 1)

\* the templates of the compiled unit: the file compiled and its ancestors
Templates == ReachedFrom({"child"}, Cardinality(DOMAIN files))

\* one of them contains a block named root
HasRootBlock == \E f \in Templates : "root" \in BlockNames(f)

\* the top-level parse has reduced its whole document
ParseComplete == Len(frames) = 1 /\ frames[1].agenda = <<>>

\* the templates without such a block compile
WithoutRootBlockCompiles ==
  ~HasRootBlock => compile_ret.kind # "error"

\* C16: a template that contains a block named root, at any place of the
\* document and at any level of the extends chain, never compiles: the parse
\* does not complete, no module is returned and nothing is rendered; the
\* compilation ends with DuplicateBlockError for the name root
C16_RootBlockNeverCompiles ==
  HasRootBlock =>
    /\ ~ParseComplete
    /\ compile_ret.kind # "module"
    /\ compile_ret.kind = "error" => compile_ret = DuplicateBlockError("root")
    /\ render_ret = Idle

\* the child extends base and holds the block after the extends tag: the
\* parent was parsed and finalized, then the registration in the child raised
C16_Witness ==
  /\ files.child = << ExtendsTag("base"), RootBlock >>
  /\ files.base = TopDoc
  /\ compile_ret = DuplicateBlockError("root")
  /\ Len(frames) = 1
  /\ frames[1].state.base_class = "Template1"

\* the name of the class of a level
LevelName(k) == class_name(ParserState(k))

\* the classes of a chain of n hops, from the topmost ancestor down to the child
ChainClasses(n) == [k \in 1..(n + 1) |-> LevelName(n + 1 - k)]

\* the returned list and state.module_body both hold the classes of the
\* chain, each class deriving from the class of the next level
ChainIsHeld ==
  LET n == Len(Lineage("child")) - 1 IN
  /\ compile_ret.body = ChainClasses(n)
  /\ frames[1].state.module_body = ChainClasses(n)
  /\ \A k \in 0..n :
       klasses[LevelName(k)].bases = <<IF k = n THEN "object" ELSE LevelName(k + 1)>>

\* every template of the chain that extends does so in its first construct only
ExtendsComesFirst ==
  \A k \in 1..Len(Lineage("child")) :
    ExtendsAt(Lineage("child")[k]) \subseteq {1}

\* with the extends tags in first place the module holds the chain
ChainIsHeldWhenExtendsComesFirst ==
  (compile_ret.kind = "module" /\ ExtendsComesFirst) => ChainIsHeld

\* an extends tag after another construct leaves the returned list without
\* the ancestors and state.module_body without the class of the level
LateExtendsSplitsTheLists ==
  (compile_ret.kind = "module" /\ ExtendsAt("child") # {} /\ 1 \notin ExtendsAt("child")) =>
    /\ compile_ret.body = <<LevelName(0)>>
    /\ LevelName(0) \notin {frames[1].state.module_body[k] :
                              k \in 1..Len(frames[1].state.module_body)}

\* C17: for an extends chain of n hops, wherever the extends tag stands at the
\* top level of the document, the list the parse returns and
\* state.module_body both hold the n+1 classes from the topmost ancestor down to
\* the child, the class of level k named Template<k> with base Template<k+1>
\* and the topmost with base object
C17_ModuleHoldsTheChain ==
  compile_ret.kind = "module" => ChainIsHeld

====
